---- MODULE Spec2Model ----
(***************************************************************************)
(* pg_slowwatch.py: a follower of a rotating PostgreSQL log (tail_follow), *)
(* the extraction of slow-query durations and user@db pairs from each line *)
(* (DURATION_RE, USER_DB_RE), the in-memory counters of main(), and the    *)
(* publication of the Prometheus text file (write_metrics_atomic).         *)
(*                                                                         *)
(* Text is a sequence of one-character strings.  A duration and a sum of   *)
(* durations are Python floats (binary64), added and rounded as Python     *)
(* does; the times are whole seconds.                                      *)
(* The process is one sequential flow with the program counter pc; the     *)
(* log writer, the signal, the faults of the file system and the reader of *)
(* the metrics file are the environment and interleave with it.            *)
(***************************************************************************)
EXTENDS Integers, Sequences, FiniteSets, TLC

(* ------------------------------ bounds -------------------------------- *)

\* number of events of the environment in a run: a write to the log, a
\* truncation or a removal of the log, an I/O fault while publishing
MaxEvents == 3
\* the time explored: a run is followed for MaxTicks seconds after the start
\* of the process; a sleep that would end later is not begun and the run is
\* left there
MaxTicks == 3

(* --------------------------- configuration ---------------------------- *)

\* --threshold-ms, default 500.0
ThresholdMs == 500
\* --flush-interval (seconds)
FlushInterval == 1
\* --sleep, default 1.0 (seconds): what one time.sleep(sleep) adds to the clock
SleepSecs == 1
\* time.time() when the process starts: any value >= FlushInterval behaves the
\* same, as last_flush starts at 0.0 and the epoch time is far above the interval
StartTime == 100
\* extra_labels = parse_labels("") : no static labels
extra_labels == << >>

(* ------------------------------- text --------------------------------- *)

\* what \s matches among the characters used here
WS == {" ", "\n", "\t"}

Digits == {"0", "1", "2", "3", "4", "5", "6", "7", "8", "9"}

DigitVal(c) ==
    CASE c = "0" -> 0 [] c = "1" -> 1 [] c = "2" -> 2 [] c = "3" -> 3
      [] c = "4" -> 4 [] c = "5" -> 5 [] c = "6" -> 6 [] c = "7" -> 7
      [] c = "8" -> 8 [] c = "9" -> 9

\* re.IGNORECASE: the letters of "duration:" and "ms" match in either case
Lower(c) ==
    CASE c = "D" -> "d" [] c = "U" -> "u" [] c = "R" -> "r" [] c = "A" -> "a"
      [] c = "T" -> "t" [] c = "I" -> "i" [] c = "O" -> "o" [] c = "N" -> "n"
      [] c = "M" -> "m" [] c = "S" -> "s" [] OTHER -> c

\* ord(c), for the comparison of strings in sorted()
CharCode(c) ==
    CASE c = "h" -> 104 [] c = "p" -> 112 [] c = "\t" -> 9 [] c = "\n" -> 10 [] c = " " -> 32 [] c = "." -> 46
      [] c = "0" -> 48 [] c = "1" -> 49 [] c = "2" -> 50 [] c = "3" -> 51
      [] c = "4" -> 52 [] c = "5" -> 53 [] c = "6" -> 54 [] c = "7" -> 55
      [] c = "8" -> 56 [] c = "9" -> 57 [] c = ":" -> 58 [] c = "@" -> 64
      [] c = "D" -> 68 [] c = "G" -> 71 [] c = "L" -> 76 [] c = "M" -> 77
      [] c = "O" -> 79 [] c = "S" -> 83 [] c = "a" -> 97 [] c = "b" -> 98
      [] c = "c" -> 99 [] c = "d" -> 100 [] c = "e" -> 101 [] c = "g" -> 103
      [] c = "i" -> 105 [] c = "k" -> 107 [] c = "l" -> 108 [] c = "m" -> 109
      [] c = "n" -> 110 [] c = "o" -> 111 [] c = "r" -> 114 [] c = "s" -> 115
      [] c = "t" -> 116 [] c = "u" -> 117 [] c = "w" -> 119

\* the value None
None == "None"

\* whether the literal lit (lower case) stands in s at position i, case ignored
MatchLit(s, i, lit) ==
    /\ i >= 1
    /\ i + Len(lit) - 1 <= Len(s)
    /\ \A k \in 1..Len(lit) : Lower(s[i + k - 1]) = lit[k]

\* the first position >= i of s whose character is not in Cls (Len(s)+1 if none):
\* the end of a greedy run Cls*
RECURSIVE RunEnd(_, _, _)
RunEnd(s, i, Cls) ==
    IF i > Len(s) \/ s[i] \notin Cls THEN i ELSE RunEnd(s, i + 1, Cls)

\* the first position >= i of s whose character is in Cls (Len(s)+1 if none):
\* the end of a greedy run [^Cls]*
RECURSIVE RunEndNot(_, _, _)
RunEndNot(s, i, Cls) ==
    IF i > Len(s) \/ s[i] \in Cls THEN i ELSE RunEndNot(s, i + 1, Cls)

\* the least element of a non-empty set of integers
MinOf(S) == CHOOSE x \in S : \A y \in S : x <= y

(* ---------------------------- DURATION_RE ----------------------------- *)

LitDuration == <<"d", "u", "r", "a", "t", "i", "o", "n", ":">>
LitMs == <<"m", "s">>

\* r'([0-9]+(?:\.[0-9]+)?)\s*ms' matched at position b of s: the position d
\* after the number, or 0.  The character classes that follow one another are
\* disjoint, so the greedy match is the only one.
NumberMatchAt(s, b) ==
    LET c == RunEnd(s, b, Digits)
        hasFrac == /\ c + 1 <= Len(s)
                   /\ s[c] = "."
                   /\ s[c + 1] \in Digits
        d == IF hasFrac THEN RunEnd(s, c + 1, Digits) ELSE c
        e == RunEnd(s, d, WS)
    IN  IF c > b /\ MatchLit(s, e, LitMs) THEN d ELSE 0

\* r'duration:\s+([0-9]+(?:\.[0-9]+)?)\s*ms' matched at position i of s:
\* <<b, d>> with group(1) = s[b..d-1], or None
DurationMatchAt(s, i) ==
    IF ~MatchLit(s, i, LitDuration) THEN None
    ELSE LET a == i + Len(LitDuration)
             b == RunEnd(s, a, WS)
         IN  IF b > a /\ NumberMatchAt(s, b) > 0
             THEN <<b, NumberMatchAt(s, b)>> ELSE None

\* a pattern that lost its 'duration:\s+': any number followed by ms matches
DURATION_RE_AnyNumber(s) ==
    LET hits == {b \in 1..Len(s) : NumberMatchAt(s, b) > 0}
    IN  IF hits = {} THEN None
        ELSE SubSeq(s, MinOf(hits), NumberMatchAt(s, MinOf(hits)) - 1)

\* DURATION_RE.search(line).group(1): the text of the number of the leftmost
\* match, or None
DURATION_RE(s) ==
    LET hits == {i \in 1..Len(s) : DurationMatchAt(s, i) /= None}
    IN  IF hits = {} THEN None
        ELSE LET m == DurationMatchAt(s, MinOf(hits))
             IN  SubSeq(s, m[1], m[2] - 1)

\* the value of a run of digits
RECURSIVE DigitsVal(_)
DigitsVal(ds) ==
    IF ds = << >> THEN 0
    ELSE 10 * DigitsVal(SubSeq(ds, 1, Len(ds) - 1)) + DigitVal(ds[Len(ds)])

(* ------------------------------- floats ------------------------------- *)

\* A Python float (IEEE 754 binary64) that is zero or a positive normal
\* number is kept as [m, e], the number m * 2^e, where m has MantBits bits
\* (m is zero and e is 0 for 0.0).  The natural numbers of this arithmetic are
\* sequences of digits of base Limb, the lowest first, the highest not zero.

\* the bits of a digit, and the base
LimbBits == 15
Limb == 2^LimbBits
\* the bits of the significand of a binary64
MantBits == 53

\* the natural number n
RECURSIVE BigOf(_)
BigOf(n) == IF n = 0 THEN << >> ELSE <<n % Limb>> \o BigOf(n \div Limb)

\* a + b + c, for a carry c
RECURSIVE BigAddC(_, _, _)
BigAddC(a, b, c) ==
    IF a = << >> /\ b = << >> THEN BigOf(c)
    ELSE LET x == (IF a = << >> THEN 0 ELSE a[1]) + (IF b = << >> THEN 0 ELSE b[1]) + c
         IN  <<x % Limb>> \o BigAddC(IF a = << >> THEN a ELSE Tail(a),
                                     IF b = << >> THEN b ELSE Tail(b), x \div Limb)

BigAdd(a, b) == BigAddC(a, b, 0)

\* a * k + c, for 0 < k < Limb
RECURSIVE BigMulC(_, _, _)
BigMulC(a, k, c) ==
    IF a = << >> THEN BigOf(c)
    ELSE LET x == a[1] * k + c
         IN  <<x % Limb>> \o BigMulC(Tail(a), k, x \div Limb)

BigMul(a, k) == BigMulC(a, k, 0)

\* the quotient and the remainder of a by k, for 0 < k < Limb
RECURSIVE BigDiv(_, _)
BigDiv(a, k) ==
    IF a = << >> THEN [q |-> << >>, r |-> 0]
    ELSE LET hi == BigDiv(Tail(a), k)
             x == hi.r * Limb + a[1]
         IN  [q |-> IF x \div k = 0 /\ hi.q = << >> THEN << >> ELSE <<x \div k>> \o hi.q,
              r |-> x % k]

\* the number of bits of n, and of a
RECURSIVE BitsOf(_)
BitsOf(n) == IF n = 0 THEN 0 ELSE 1 + BitsOf(n \div 2)

BigBits(a) == IF a = << >> THEN 0 ELSE LimbBits * (Len(a) - 1) + BitsOf(a[Len(a)])

\* a * 2^n
BigShl(a, n) ==
    IF a = << >> THEN a
    ELSE BigMul([i \in 1..(n \div LimbBits) |-> 0] \o a, 2^(n % LimbBits))

\* a \div 2^n
BigShr(a, n) ==
    IF n \div LimbBits >= Len(a) THEN << >>
    ELSE BigDiv(SubSeq(a, (n \div LimbBits) + 1, Len(a)), 2^(n % LimbBits)).q

\* a % 2^n is not zero
BigLow(a, n) ==
    \/ \E i \in 1..Len(a) : i <= n \div LimbBits /\ a[i] /= 0
    \/ n \div LimbBits < Len(a) /\ a[(n \div LimbBits) + 1] % 2^(n % LimbBits) /= 0

BigOdd(a) == a /= << >> /\ a[1] % 2 = 1

\* a < b
BigLess(a, b) ==
    \/ Len(a) < Len(b)
    \/ /\ Len(a) = Len(b)
       /\ \E i \in 1..Len(a) :
             a[i] < b[i] /\ \A j \in (i + 1)..Len(a) : a[j] = b[j]

\* x / 2^k rounded to the nearest natural number, a tie to the even one; more
\* says that the number rounded is a little above x
RoundHalfEven(x, k, more) ==
    IF k = 0 THEN x
    ELSE LET q == BigShr(x, k)
             half == BigOdd(BigShr(x, k - 1))
             rest == more \/ BigLow(x, k - 1)
         IN  IF half /\ (rest \/ BigOdd(q)) THEN BigAdd(q, <<1>>) ELSE q

\* 0.0
FZero == [m |-> << >>, e |-> 0]

\* the float nearest to x * 2^e (a little above it when more), a tie to the
\* even significand
Float(x, e, more) ==
    LET n == BigBits(x)
    IN  IF n = 0 THEN FZero
        ELSE IF n <= MantBits
        THEN [m |-> BigShl(x, MantBits - n), e |-> e - (MantBits - n)]
        ELSE LET k == n - MantBits
                 q == RoundHalfEven(x, k, more)
             IN  IF BigBits(q) > MantBits
                 THEN [m |-> BigShr(q, 1), e |-> e + k + 1]
                 ELSE [m |-> q, e |-> e + k]

\* float(n) for a natural number n
FloatOfInt(n) == Float(BigOf(n), 0, FALSE)

\* a + b of two floats: the exact sum, rounded
FAdd(a, b) ==
    IF a.m = << >> THEN b
    ELSE IF b.m = << >> THEN a
    ELSE LET e == IF a.e < b.e THEN a.e ELSE b.e
         IN  Float(BigAdd(BigShl(a.m, a.e - e), BigShl(b.m, b.e - e)), e, FALSE)

\* a < b of two floats
FLess(a, b) ==
    IF b.m = << >> THEN FALSE
    ELSE IF a.m = << >> THEN TRUE
    ELSE a.e < b.e \/ (a.e = b.e /\ BigLess(a.m, b.m))

\* the natural number written with the decimal digits ds, read four digits
\* at a time
RECURSIVE BigOfDigits(_)
BigOfDigits(ds) ==
    IF ds = << >> THEN << >>
    ELSE LET k == IF Len(ds) < 4 THEN Len(ds) ELSE 4
         IN  BigAddC(BigMul(BigOfDigits(SubSeq(ds, 1, Len(ds) - k)), 10^k), << >>,
                     DigitsVal(SubSeq(ds, Len(ds) - k + 1, Len(ds))))

\* x \div 10^d, and whether the division left a remainder; four digits at a
\* time
RECURSIVE DivPow10(_, _)
DivPow10(x, d) ==
    IF d = 0 THEN [q |-> x, more |-> FALSE]
    ELSE LET k == IF d < 4 THEN d ELSE 4
             y == DivPow10(x, d - k)
             z == BigDiv(y.q, 10^k)
         IN  [q |-> z.q, more |-> y.more \/ z.r /= 0]

\* float(g) for g of the form digits or digits.digits: the float nearest to
\* the decimal number
ParseFloat(g) ==
    LET p == RunEnd(g, 1, Digits)
        frac == IF p < Len(g) THEN SubSeq(g, p + 1, Len(g)) ELSE << >>
        d == Len(frac)
        s == MantBits + 3 + 4 * d
        y == DivPow10(BigShl(BigOfDigits(SubSeq(g, 1, p - 1) \o frac), s), d)
    IN  Float(y.q, 0 - s, y.more)

(* ----------------------------- USER_DB_RE ----------------------------- *)

\* r'\s(?P<user>[^@\s]+)@(?P<db>[^\s]+)\s' matched at position i of s:
\* <<user, db>> or None.  user is the run up to the first "@" or blank, db the
\* whole run of non-blanks after the "@" (it may hold further "@"), and a blank
\* must follow it.
UserDbMatchAt(s, i) ==
    IF i > Len(s) \/ s[i] \notin WS THEN None
    ELSE LET u == RunEndNot(s, i + 1, WS \cup {"@"})
             d == RunEndNot(s, u + 1, WS)
         IN  IF /\ u > i + 1
                /\ u <= Len(s)
                /\ s[u] = "@"
                /\ d > u + 1
                /\ d <= Len(s)
             THEN <<SubSeq(s, i + 1, u - 1), SubSeq(s, u + 1, d - 1)>>
             ELSE None

\* USER_DB_RE.search(line): <<group("user"), group("db")>> of the leftmost match,
\* or None
USER_DB_RE(s) ==
    LET hits == {i \in 1..Len(s) : UserDbMatchAt(s, i) /= None}
    IN  IF hits = {} THEN None ELSE UserDbMatchAt(s, MinOf(hits))

(* ------------------------------ the log ------------------------------- *)

LineBob600 ==
    <<"1"," ","b","o","b","@","b","i","l","l","i","n","g"," ","d","u","r","a","t","i","o","n",":"," ","6","0","0"," ","m","s","\n">>
LineBob1200 ==
    <<"2"," ","b","o","b","@","b","i","l","l","i","n","g"," ","d","u","r","a","t","i","o","n",":"," ","1","2","0","0"," ","m","s","\n">>
LineBob100 ==
    <<"3"," ","b","o","b","@","b","i","l","l","i","n","g"," ","d","u","r","a","t","i","o","n",":"," ","1","0","0"," ","m","s","\n">>
LineAlice ==
    <<"4"," ","a","l","i","c","e","@","o","r","d","e","r","s"," ","L","O","G",":"," ","d","u","r","a","t","i","o","n",":"," ","7","5","0",".","5"," ","m","s","\n">>
LineNoAttr ==
    <<"L","O","G",":"," ","D","u","r","a","t","i","o","n",":","\t","5","0","0"," ","M","S","\n">>
LineNoDur ==
    <<"5"," ","c","a","r","o","l","@","c","r","m"," ","L","O","G",":"," ","c","h","e","c","k","p","o","i","n","t"," ","9","0","0"," ","m","s","\n">>
\* three slow queries of two users whose durations are not floats: the float
\* of 500.1 + 500.2 + 500.3 depends on the order of the additions
LineBob500_1 ==
    <<"6"," ","b","o","b","@","b","i","l","l","i","n","g"," ","d","u","r","a","t","i","o","n",":"," ","5","0","0",".","1"," ","m","s","\n">>
LineAlice500_2 ==
    <<"7"," ","a","l","i","c","e","@","o","r","d","e","r","s"," ","d","u","r","a","t","i","o","n",":"," ","5","0","0",".","2"," ","m","s","\n">>
LineBob500_3 ==
    <<"8"," ","b","o","b","@","b","i","l","l","i","n","g"," ","d","u","r","a","t","i","o","n",":"," ","5","0","0",".","3"," ","m","s","\n">>

\* the beginning and the rest of a line written in two parts
LineHead(l) == SubSeq(l, 1, Len(l) - 6)
LineRest(l) == SubSeq(l, Len(l) - 5, Len(l))

\* what the log writer writes, write after write: one of these scripts, begun
\* again when it is through.  A write holds one line, several lines, or parts
\* of lines.
Scripts ==
    << <<LineBob600 \o LineBob1200 \o LineBob100, LineAlice, LineNoDur>>,
       <<LineHead(LineAlice), LineRest(LineAlice) \o LineBob600, LineNoAttr>>,
       <<LineNoDur \o LineNoAttr, LineBob100, LineBob600>>,
       <<LineBob500_1 \o LineAlice500_2 \o LineBob500_3, LineNoAttr, LineBob100>> >>

\* the lines the log writer writes
Lines ==
    {LineBob600, LineBob1200, LineBob100, LineAlice, LineNoAttr, LineNoDur,
     LineBob500_1, LineAlice500_2, LineBob500_3}

Unknown == <<"u", "n", "k", "n", "o", "w", "n">>

(* ----------------------------- rendering ------------------------------ *)

DigitChars == <<"0", "1", "2", "3", "4", "5", "6", "7", "8", "9">>

\* str(int(n)) for n >= 0
RECURSIVE IntToText(_)
IntToText(n) ==
    IF n < 10 THEN <<DigitChars[n + 1]>>
    ELSE IntToText(n \div 10) \o <<DigitChars[(n % 10) + 1]>>

\* str(n) for a natural number n of the float arithmetic, "" for zero
RECURSIVE BigText(_)
BigText(a) ==
    IF a = << >> THEN << >>
    ELSE BigText(BigDiv(a, 10).q) \o <<DigitChars[BigDiv(a, 10).r + 1]>>

\* f"{x:.3f}" for a float x >= 0: the decimal number of three decimals
\* nearest to x, a tie to the even one
Fixed3(x) ==
    LET t == IF x.e >= 0 THEN BigShl(BigMul(x.m, 1000), x.e)
             ELSE RoundHalfEven(BigMul(x.m, 1000), 0 - x.e, FALSE)
        ds == BigText(t)
        p == IF Len(ds) < 4 THEN [i \in 1..(4 - Len(ds)) |-> "0"] \o ds ELSE ds
    IN  SubSeq(p, 1, Len(p) - 3) \o <<".">> \o SubSeq(p, Len(p) - 2, Len(p))

\* a < b for two strings, as Python compares them (by code point, a proper
\* prefix first)
RECURSIVE LexLess(_, _)
LexLess(a, b) ==
    IF b = << >> THEN FALSE
    ELSE IF a = << >> THEN TRUE
    ELSE IF a[1] /= b[1] THEN CharCode(a[1]) < CharCode(b[1])
    ELSE LexLess(Tail(a), Tail(b))

\* the comparison of two keys by db first
KeyLessDbFirst(k1, k2) ==
    \/ LexLess(k1[2], k2[2])
    \/ k1[2] = k2[2] /\ LexLess(k1[1], k2[1])

\* (u1, d1) < (u2, d2) for two keys of per_key
KeyLess(k1, k2) ==
    \/ LexLess(k1[1], k2[1])
    \/ k1[1] = k2[1] /\ LexLess(k1[2], k2[2])

\* S in descending order
RECURSIVE SortedStringsDescending(_)
SortedStringsDescending(S) ==
    IF S = {} THEN << >>
    ELSE LET m == CHOOSE x \in S : \A y \in S \ {x} : LexLess(y, x)
         IN  <<m>> \o SortedStringsDescending(S \ {m})

\* sorted(S) for a finite set S of strings
RECURSIVE SortedStrings(_)
SortedStrings(S) ==
    IF S = {} THEN << >>
    ELSE LET m == CHOOSE x \in S : \A y \in S \ {x} : LexLess(x, y)
         IN  <<m>> \o SortedStrings(S \ {m})

\* sorted(S) for a finite set S of keys (user, db)
RECURSIVE SortedKeys(_)
SortedKeys(S) ==
    IF S = {} THEN << >>
    ELSE LET m == CHOOSE x \in S : \A y \in S \ {x} : KeyLess(x, y)
         IN  <<m>> \o SortedKeys(S \ {m})

LabelDb == <<"d", "b">>
LabelUser == <<"u", "s", "e", "r">>

\* ",".join(parts)
RECURSIVE JoinComma(_)
JoinComma(parts) ==
    IF parts = << >> THEN << >>
    ELSE IF Len(parts) = 1 THEN parts[1]
    ELSE parts[1] \o <<",">> \o JoinComma(Tail(parts))

\* format_labels(extra, db, user): the dict extra with db and user added when
\* given, the items sorted by label name, rendered {k="v",...}; "" when empty
format_labels(extra, db, user) ==
    LET withDb == IF db /= None
                  THEN [k \in DOMAIN extra \cup {LabelDb} |->
                            IF k = LabelDb THEN db ELSE extra[k]]
                  ELSE extra
        lbls == IF user /= None
                THEN [k \in DOMAIN withDb \cup {LabelUser} |->
                          IF k = LabelUser THEN user ELSE withDb[k]]
                ELSE withDb
        items == SortedStrings(DOMAIN lbls)
        inside == JoinComma([i \in 1..Len(items) |->
                      items[i] \o <<"=", "\"">> \o lbls[items[i]] \o <<"\"">>])
    IN  IF inside = << >> THEN << >> ELSE <<"{">> \o inside \o <<"}">>

HelpTotal == <<"# HELP pg_slow_queries_total Count of slow queries observed by log parser.">>
TypeTotal == <<"# TYPE pg_slow_queries_total counter">>
HelpSum == <<"# HELP pg_slow_queries_ms_sum Sum of durations (ms) for slow queries.">>
TypeSum == <<"# TYPE pg_slow_queries_ms_sum counter">>

\* one sample line: the metric name, the label text and the value text
Sample(name, lbl, value) == <<name, lbl, value>>

\* the keys of the dict pk, a sequence of entries in insertion order
Keys(pk) == {pk[i].key : i \in 1..Len(pk)}

\* pk[key]
StatOf(pk, key) == pk[CHOOSE i \in 1..Len(pk) : pk[i].key = key]

\* the two sample lines of each key of per_key, the keys in sorted order
RECURSIVE KeyedSamples(_, _)
KeyedSamples(keys, pk) ==
    IF keys = << >> THEN << >>
    ELSE LET k == keys[1]
             lbl == format_labels(extra_labels, k[2], k[1])
         IN  << Sample("pg_slow_queries_total", lbl, IntToText(StatOf(pk, k).count)),
                Sample("pg_slow_queries_ms_sum", lbl, Fixed3(StatOf(pk, k).sum)) >>
             \o KeyedSamples(Tail(keys), pk)

\* the exposition text composed by main(), as its sequence of lines
Render(cnt, sum, pk) ==
    LET lbl == format_labels(extra_labels, None, None)
    IN  << HelpTotal, TypeTotal, HelpSum, TypeSum,
           Sample("pg_slow_queries_total", lbl, IntToText(cnt)),
           Sample("pg_slow_queries_ms_sum", lbl, Fixed3(sum)) >>
        \o KeyedSamples(SortedKeys(Keys(pk)), pk)

(* ---------------------------- the counters ---------------------------- *)

\* the key built from the user alone
KeyOfUserTwice(ud) == IF ud = None THEN <<Unknown, Unknown>> ELSE <<ud[1], ud[1]>>

\* the key of a slow query: (user or "unknown", db or "unknown")
KeyOf(ud) == IF ud = None THEN <<Unknown, Unknown>> ELSE ud

\* a dict that keeps the bucket of the last slow query only
RecordKeyEvicting(pk, key, dur_ms) ==
    << [key |-> key, count |-> 1, sum |-> dur_ms] >>

\* per_key after lines 174-180 for a slow query of dur_ms on key: the entry
\* of the key is created with zeros if there is none, at the end of the dict,
\* and the query is added to it
RecordKey(pk, key, dur_ms) ==
    LET had == IF key \in Keys(pk) THEN pk
               ELSE Append(pk, [key |-> key, count |-> 0, sum |-> FZero])
    IN  [i \in 1..Len(had) |->
            IF had[i].key = key
            THEN [had[i] EXCEPT !.count = @ + 1, !.sum = FAdd(@, dur_ms)]
            ELSE had[i]]

\* the comparison with > in the place of >=
IsSlowStrict(dur_ms) == FLess(FloatOfInt(ThresholdMs), dur_ms)

\* whether the line counts as a slow query: dur_ms >= args.threshold_ms
IsSlow(dur_ms) == ~FLess(dur_ms, FloatOfInt(ThresholdMs))

\* lines 161-180: the counters after the line l, from the counters cnt, sum
\* and pk before it
Observe(l, cnt, sum, pk) ==
    LET m_ud == USER_DB_RE(l)
        m == DURATION_RE(l)
        same == [slow_count_total |-> cnt, slow_ms_sum_total |-> sum, per_key |-> pk]
    IN  IF m = None
        THEN same
        ELSE LET dur_ms == ParseFloat(m)
             IN  IF IsSlow(dur_ms)
                 THEN [slow_count_total |-> cnt + 1,
                       slow_ms_sum_total |-> FAdd(sum, dur_ms),
                       per_key |-> RecordKey(pk, KeyOf(m_ud), dur_ms)]
                 ELSE same

(* ------------------------------ the state ----------------------------- *)

VARIABLES
    \* the log: the inode the path names (0: the path does not exist), the
    \* content of each inode, whether the file may be opened for reading
    path_ino, files, readable,
    \* the script the writer follows and the number of writes it has done
    script, appends,
    \* the number of events of the environment so far
    events,
    \* tail_follow: the file object f and last_ino
    f, last_ino,
    \* the place of the process in its code, the line the generator yielded,
    \* the stop flag
    pc, line, STOP,
    \* main: the counters
    slow_count_total, slow_ms_sum_total, per_key,
    \* time.time(), and main's now and last_flush
    clock, now, last_flush,
    \* the exposition being written, whether it is the final flush, whether the
    \* directory of the metrics file exists, the files of that directory
    content, final, dir_exists, mfs,
    \* history: the lines yielded so far; the length of yielded when the path's
    \* content was last reset or first opened, what did it, whether the follower
    \* had then read all of the file, and the size of the file then; the
    \* destination's content when the current publication began
    yielded, mark, dest_before

vars == << path_ino, files, readable, script, appends, events,
           f, last_ino, pc, line, STOP,
           slow_count_total, slow_ms_sum_total, per_key,
           clock, now, last_flush, content, final, dir_exists, mfs,
           yielded, mark, dest_before >>

logVars == <<path_ino, files, readable, script, appends>>
followVars == <<f, last_ino, line, yielded>>
countVars == <<slow_count_total, slow_ms_sum_total, per_key>>
pubVars == <<content, final, dir_exists, mfs, dest_before>>
timeVars == <<clock, now, last_flush>>

Inodes == {1, 2, 3}

\* the names of the two files of the metrics directory the model follows: the
\* destination and the temporary file of the publication under way
Dest == "dest"
Tmp == "tmp"

\* the content of a name of the metrics directory that does not exist
Absent == << <<"ENOENT">> >>

\* f = None
NoFile == [st |-> "none", ino |-> 0, fdpos |-> 0, buf |-> << >>]

\* what the log holds when the process starts, if it exists
OldLog == LineNoAttr

\* the exposition a previous run left at the destination
OldPayload == Render(4, FloatOfInt(4000), << >>)

Init ==
    /\ path_ino = 1
    /\ files = [i \in Inodes |-> IF i = 1 THEN OldLog ELSE << >>]
    /\ readable = TRUE
    /\ script \in 1..Len(Scripts)
    /\ appends = 0
    /\ events = 0
    /\ f = NoFile
    /\ last_ino = None
    /\ pc = "init_open"
    /\ line = << >>
    /\ STOP = FALSE
    /\ slow_count_total = 0
    /\ slow_ms_sum_total = FZero
    /\ per_key = << >>
    /\ clock = StartTime
    /\ now = 0
    /\ last_flush = 0
    /\ content = << >>
    /\ final = FALSE
    /\ dir_exists \in BOOLEAN
    /\ mfs = [n \in {Dest, Tmp} |->
                IF n = Dest /\ dir_exists THEN OldPayload ELSE Absent]
    /\ yielded = << >>
    /\ mark = [at |-> 0, by |-> "start", clean |-> FALSE, size |-> 0]
    /\ dest_before = mfs[Dest]

(* --------------------------- the environment -------------------------- *)

\* the inodes in use: the one the path names and the one the follower holds open
InUse == (IF path_ino /= 0 THEN {path_ino} ELSE {})
            \cup (IF f.st = "open" THEN {f.ino} ELSE {})

\* the inode a new file gets
FreshIno == MinOf(Inodes \ InUse)

\* what the writer writes next
NextChunk == Scripts[script][(appends % 3) + 1]

\* the log changes between two steps of the process that look at it: a change
\* during any other step is the same as one just before the next look.  Once
\* the stop flag is set the process does not look at the log again.
LogObserved == ~STOP /\ pc \in {"init_open", "readline", "stat", "reopen"}

\* the stop flag likewise changes just before a step that reads it.  Between
\* the test of line 116 and an f.readline() that raises, no step that reads the
\* flag follows: there the signal arrives after the test.
StopObserved ==
    \/ pc \in {"init_open", "readline", "check_stop"}
    \/ pc = "read" /\ f.st /= "open"

\* one more event of the environment is within the bound
MayHappen == events < MaxEvents

\* the content of the inodes once the path names inode p and the follower
\* holds h: an inode neither named nor held open is freed
Collect(fs, p, h) ==
    [i \in Inodes |-> IF i = p \/ (h.st = "open" /\ h.ino = i) THEN fs[i] ELSE << >>]

\* the writer appends its next write to the log
AppendLog ==
    /\ LogObserved /\ MayHappen /\ path_ino /= 0
    /\ files' = [files EXCEPT ![path_ino] = @ \o NextChunk]
    /\ appends' = appends + 1
    /\ events' = events + 1
    /\ UNCHANGED <<path_ino, readable, script>>
    /\ UNCHANGED <<followVars, countVars, pubVars, timeVars, pc, STOP, mark>>

\* copytruncate: the file is truncated to length 0
Truncate ==
    /\ LogObserved /\ MayHappen /\ path_ino /= 0
    /\ files[path_ino] /= << >>
    /\ files' = [files EXCEPT ![path_ino] = << >>]
    /\ events' = events + 1
    /\ mark' = [at |-> Len(yielded), by |-> "truncate",
                 clean |-> /\ f.st = "open" /\ f.ino = path_ino /\ f.buf = << >>
                           /\ f.fdpos = Len(files[path_ino]),
                 size |-> 0]
    /\ UNCHANGED <<path_ino, readable, script, appends>>
    /\ UNCHANGED <<followVars, countVars, pubVars, timeVars, pc, STOP>>

\* the file is removed, or renamed away as the first half of a rotation
Remove ==
    /\ LogObserved /\ MayHappen /\ path_ino /= 0
    /\ path_ino' = 0
    /\ files' = Collect(files, 0, f)
    /\ readable' = TRUE
    /\ events' = events + 1
    /\ UNCHANGED <<script, appends, mark>>
    /\ UNCHANGED <<followVars, countVars, pubVars, timeVars, pc, STOP>>

\* a new, empty file appears at the path (the second half of a rotation, when
\* it follows a removal at once), which the process may or may not read
Create ==
    /\ LogObserved /\ path_ino = 0
    /\ path_ino' = FreshIno
    /\ files' = Collect(files, FreshIno, f)
    /\ readable' \in BOOLEAN
    /\ mark' = [at |-> Len(yielded), by |-> "create", clean |-> FALSE, size |-> 0]
    /\ UNCHANGED <<script, appends, events>>
    /\ UNCHANGED <<followVars, countVars, pubVars, timeVars, pc, STOP>>

\* the permission to read the file is given
Chmod ==
    /\ LogObserved /\ path_ino /= 0 /\ ~readable
    /\ readable' = TRUE
    /\ UNCHANGED <<path_ino, files, script, appends, events, mark>>
    /\ UNCHANGED <<followVars, countVars, pubVars, timeVars, pc, STOP>>

\* sig_handler: SIGINT or SIGTERM arrives
Signal ==
    /\ StopObserved /\ ~STOP
    /\ STOP' = TRUE
    /\ UNCHANGED <<logVars, events, followVars, countVars, pubVars, timeVars, pc, mark>>

(* ---------------------------- tail_follow ----------------------------- *)

\* time.sleep(sleep): the time at the return of a sleep begun at time t
Slept(t) == t + SleepSecs

\* the sleep begun at time t returns within the time explored
WithinTicks(t) == Slept(t) <= StartTime + MaxTicks

\* f.close()
Closed(h) == IF h.st = "none" THEN h ELSE [h EXCEPT !.st = "closed", !.buf = << >>]

\* f.seek(0, os.SEEK_END): the offset at which a newly opened file is read
SeekEnd(size) == size

\* open_file(): the exception it ends with ("" when it returns), and f and
\* last_ino after it.  The old file object is closed before the path is opened.
open_file ==
    IF path_ino = 0
    THEN [exc |-> "FileNotFoundError", f |-> Closed(f), last_ino |-> last_ino]
    ELSE IF ~readable
    THEN [exc |-> "PermissionError", f |-> Closed(f), last_ino |-> last_ino]
    ELSE [exc |-> "",
          f |-> [st |-> "open", ino |-> path_ino,
                 fdpos |-> SeekEnd(Len(files[path_ino])), buf |-> << >>],
          last_ino |-> path_ino]

\* history: the initial open of a file the path has named since the start,
\* of the given size, is noted
Opened(m, size) ==
    IF m.by = "start" THEN [at |-> 0, by |-> "open", clean |-> TRUE, size |-> size]
    ELSE m

\* the loop of the initial open without the test of the stop flag
InitOpenUntilOpened ==
    /\ pc = "init_open"
    /\ LET r == open_file
       IN  /\ f' = r.f
           /\ last_ino' = r.last_ino
           /\ files' = Collect(files, path_ino, r.f)
           /\ pc' = IF r.exc = "" THEN "readline" ELSE "init_sleep"
           /\ mark' = IF r.exc = "" THEN Opened(mark, Len(files[path_ino])) ELSE mark
    /\ UNCHANGED <<path_ino, readable, script, appends, events>>
    /\ UNCHANGED <<line, yielded, countVars, pubVars, timeVars, STOP>>

\* lines 106-114: one turn of the loop of the initial open
InitOpen ==
    /\ pc = "init_open"
    /\ IF STOP
       THEN /\ pc' = "final_flush"
            /\ UNCHANGED <<f, last_ino, files, mark>>
       ELSE LET r == open_file
            IN  /\ f' = r.f
                /\ last_ino' = r.last_ino
                /\ files' = Collect(files, path_ino, r.f)
                /\ pc' = IF r.exc = "" THEN "readline" ELSE "init_sleep"
                /\ mark' = IF r.exc = "" THEN Opened(mark, Len(files[path_ino])) ELSE mark
    /\ UNCHANGED <<path_ino, readable, script, appends, events>>
    /\ UNCHANGED <<line, yielded, countVars, pubVars, timeVars, STOP>>

\* lines 111 and 114: the sleep before the open is tried again
InitSleep ==
    /\ pc = "init_sleep"
    /\ WithinTicks(clock)
    /\ clock' = Slept(clock)
    /\ pc' = "init_open"
    /\ UNCHANGED <<logVars, events, followVars, countVars, pubVars, now, last_flush, STOP, mark>>

\* the position of the first line terminator of s, 0 if it has none
FirstNL(s) ==
    LET nls == {i \in 1..Len(s) : s[i] = "\n"}
    IN  IF nls = {} THEN 0 ELSE MinOf(nls)

\* f.tell(): the offset of the next character readline() returns
Tell(h) == h.fdpos - Len(h.buf)

\* f.readline() on the handle h of a file whose content is data: the text
\* returned and the handle after it.  The text object reads ahead all there is
\* (a chunk holds 8192 characters) and keeps what follows the line in its
\* buffer; at the end of the file it returns what is left, terminated or not.
readline(h, data) ==
    IF FirstNL(h.buf) > 0
    THEN [line |-> SubSeq(h.buf, 1, FirstNL(h.buf)),
          f |-> [h EXCEPT !.buf = SubSeq(h.buf, FirstNL(h.buf) + 1, Len(h.buf))]]
    ELSE LET more == IF h.fdpos < Len(data)
                     THEN SubSeq(data, h.fdpos + 1, Len(data)) ELSE << >>
             all == h.buf \o more
             pos == h.fdpos + Len(more)
             k == FirstNL(all)
         IN  IF k > 0
             THEN [line |-> SubSeq(all, 1, k),
                   f |-> [h EXCEPT !.fdpos = pos, !.buf = SubSeq(all, k + 1, Len(all))]]
             ELSE [line |-> all, f |-> [h EXCEPT !.fdpos = pos, !.buf = << >>]]

\* line 116: the test of the loop of tail_follow; the generator is resumed
\* here after a line it yielded, and comes here after every sleep
LoopTest ==
    /\ pc = "readline"
    /\ pc' = IF STOP THEN "final_flush" ELSE "read"
    /\ UNCHANGED <<logVars, events, followVars, countVars, pubVars, timeVars, STOP, mark>>

\* lines 117-120: the read of the next line, once the test of the loop has
\* passed.  A line read is yielded to main.  readline() on a closed file
\* raises ValueError, which nothing catches.
ReadLine ==
    /\ pc = "read"
    /\ IF f.st /= "open"
       THEN /\ pc' = "crashed"
            /\ UNCHANGED <<f, line, yielded>>
       ELSE LET r == readline(f, files[f.ino])
            IN  /\ f' = r.f
                /\ IF r.line /= << >>
                   THEN /\ line' = r.line
                        /\ yielded' = Append(yielded, r.line)
                        /\ pc' = "process"
                   ELSE /\ pc' = "stat"
                        /\ UNCHANGED <<line, yielded>>
    /\ UNCHANGED <<logVars, events, last_ino, countVars, pubVars, timeVars, STOP, mark>>

\* line 127: rotated (inode changed) or truncated (size < current position)
NeedsReopen(cur_ino, st_size) == cur_ino /= last_ino \/ st_size < Tell(f)

\* lines 123-127 and 129-131: os.stat(log_path) at the end of the file
Stat ==
    /\ pc = "stat"
    /\ pc' = IF path_ino = 0 THEN "sleep_missing"
             ELSE IF NeedsReopen(path_ino, Len(files[path_ino])) THEN "reopen"
             ELSE "sleep"
    /\ UNCHANGED <<logVars, events, followVars, countVars, pubVars, timeVars, STOP, mark>>

\* line 128 with the handlers of lines 129-133: open_file() after a rotation
\* or a truncation was seen
Reopen ==
    /\ pc = "reopen"
    /\ LET r == open_file
       IN  /\ f' = r.f
           /\ last_ino' = r.last_ino
           /\ files' = Collect(files, path_ino, r.f)
           /\ pc' = IF r.exc = "FileNotFoundError" THEN "sleep_missing" ELSE "sleep"
    /\ UNCHANGED <<path_ino, readable, script, appends, events>>
    /\ UNCHANGED <<line, yielded, countVars, pubVars, timeVars, STOP, mark>>

\* line 131: the sleep of the handler of FileNotFoundError
SleepMissing ==
    /\ pc = "sleep_missing"
    /\ WithinTicks(clock)
    /\ clock' = Slept(clock)
    /\ pc' = "sleep"
    /\ UNCHANGED <<logVars, events, followVars, countVars, pubVars, now, last_flush, STOP, mark>>

\* line 135: the sleep at the end of a turn of the loop
Sleep ==
    /\ pc = "sleep"
    /\ WithinTicks(clock)
    /\ clock' = Slept(clock)
    /\ pc' = "readline"
    /\ UNCHANGED <<logVars, events, followVars, countVars, pubVars, now, last_flush, STOP, mark>>

(* -------------------------------- main -------------------------------- *)

\* lines 161-180: the body of the loop up to the counters, for the line the
\* generator yielded.  The line is not used after it.
Process ==
    /\ pc = "process"
    /\ \E r \in {Observe(line, slow_count_total, slow_ms_sum_total, per_key)} :
          /\ slow_count_total' = r.slow_count_total
          /\ slow_ms_sum_total' = r.slow_ms_sum_total
          /\ per_key' = r.per_key
    /\ line' = << >>
    /\ pc' = "flush_check"
    /\ UNCHANGED <<logVars, events, f, last_ino, yielded, pubVars, timeVars, STOP, mark>>

\* line 183: whether the flush interval has passed since the last flush
FlushDue(t, last) == t - last >= FlushInterval

\* lines 182-203: the clock is read and, when a flush is due, the exposition
\* is composed
FlushCheck ==
    /\ pc = "flush_check"
    /\ IF FlushDue(clock, last_flush)
       THEN /\ now' = clock
            /\ content' = Render(slow_count_total, slow_ms_sum_total, per_key)
            /\ dest_before' = mfs[Dest]
            /\ pc' = "makedirs"
       ELSE /\ pc' = "check_stop"
            /\ UNCHANGED <<now, content, dest_before>>
    /\ UNCHANGED <<logVars, events, followVars, countVars, clock, last_flush, STOP, mark>>
    /\ UNCHANGED <<final, dir_exists, mfs>>

\* lines 212-213: the stop flag is read after the line is done with
CheckStop ==
    /\ pc = "check_stop"
    /\ pc' = IF STOP THEN "final_flush" ELSE "readline"
    /\ UNCHANGED <<logVars, events, followVars, countVars, pubVars, timeVars, STOP, mark>>

\* lines 216-229: the exposition of the final flush is composed
FinalFlush ==
    /\ pc = "final_flush"
    /\ content' = Render(slow_count_total, slow_ms_sum_total, per_key)
    /\ final' = TRUE
    /\ dest_before' = mfs[Dest]
    /\ pc' = "mktemp"
    /\ UNCHANGED <<logVars, events, followVars, countVars, timeVars, STOP, mark>>
    /\ UNCHANGED <<dir_exists, mfs>>

(* ------------------------ write_metrics_atomic ------------------------ *)

\* the exposition written to the destination itself
TmpNameInPlace == Dest

\* line 78: the file the exposition is written to, a new temporary file in the
\* directory of the destination
TmpName == Tmp

\* an I/O fault may happen
MayFail == MayHappen

\* a step of the publication raises: the handler of line 207 or 231 is next
Raise ==
    /\ pc' = "pub_except"
    /\ events' = events + 1

\* the place after a publication, and last_flush there: the periodic flush sets
\* last_flush (line 210) and goes on to the test of STOP, the final one ends
\* main.  now and content are not used after it.
AfterPublish ==
    /\ pc' = IF final THEN "done" ELSE "check_stop"
    /\ last_flush' = IF final THEN last_flush ELSE now
    /\ now' = 0
    /\ content' = << >>

\* line 205: os.makedirs(dirname, exist_ok=True)
Makedirs ==
    /\ pc = "makedirs"
    /\ \/ /\ dir_exists' = TRUE
          /\ pc' = "mktemp"
          /\ UNCHANGED events
       \/ /\ MayFail
          /\ Raise
          /\ UNCHANGED dir_exists
    /\ UNCHANGED <<logVars, followVars, countVars, timeVars, STOP, mark>>
    /\ UNCHANGED <<content, final, mfs, dest_before>>

\* line 78: the temporary file is created, empty; it cannot be in a directory
\* that does not exist
MkTemp ==
    /\ pc = "mktemp"
    /\ \/ /\ dir_exists
          /\ mfs' = [mfs EXCEPT ![TmpName] = << >>]
          /\ pc' = "write"
          /\ UNCHANGED events
       \/ /\ ~dir_exists
          /\ pc' = "pub_except"
          /\ UNCHANGED <<mfs, events>>
       \/ /\ dir_exists /\ MayFail
          /\ Raise
          /\ UNCHANGED mfs
    /\ UNCHANGED <<logVars, followVars, countVars, timeVars, STOP, mark>>
    /\ UNCHANGED <<content, final, dir_exists, dest_before>>

\* line 79: tmp.write(content) fills the buffer of the file object
Write ==
    /\ pc = "write"
    /\ \/ /\ pc' = "flush"
          /\ UNCHANGED events
       \/ /\ MayFail
          /\ Raise
    /\ UNCHANGED <<logVars, followVars, countVars, timeVars, STOP, mark>>
    /\ UNCHANGED <<content, final, dir_exists, mfs, dest_before>>

\* line 80: tmp.flush() writes the buffer to the file; a flush that fails may
\* have written a part of it
Flush ==
    /\ pc = "flush"
    /\ \/ /\ mfs' = [mfs EXCEPT ![TmpName] = content]
          /\ pc' = "fsync"
          /\ UNCHANGED events
       \/ /\ MayFail
          /\ \E k \in {0, Len(content) - 1} :
                mfs' = [mfs EXCEPT ![TmpName] = SubSeq(content, 1, k)]
          /\ Raise
    /\ UNCHANGED <<logVars, followVars, countVars, timeVars, STOP, mark>>
    /\ UNCHANGED <<content, final, dir_exists, dest_before>>

\* line 81: os.fsync(tmp.fileno())
Fsync ==
    /\ pc = "fsync"
    /\ \/ /\ pc' = "replace"
          /\ UNCHANGED events
       \/ /\ MayFail
          /\ Raise
    /\ UNCHANGED <<logVars, followVars, countVars, timeVars, STOP, mark>>
    /\ UNCHANGED <<content, final, dir_exists, mfs, dest_before>>

\* line 83: os.replace(tmp_name, path) gives the destination the content of
\* the temporary file in one step, or fails and changes nothing; then the
\* publication is over
Replace ==
    /\ pc = "replace"
    /\ \/ /\ mfs' = [n \in {Dest, Tmp} |-> IF n = Dest THEN mfs[TmpName] ELSE Absent]
          /\ dest_before' = mfs[TmpName]
          /\ AfterPublish
          /\ UNCHANGED events
       \/ /\ MayFail
          /\ Raise
          /\ UNCHANGED <<mfs, dest_before, last_flush, now, content>>
    /\ UNCHANGED <<logVars, followVars, countVars, clock, STOP, mark>>
    /\ UNCHANGED <<final, dir_exists>>

\* a handler after which last_flush is what it was, so that the flush is due
\* again at the next line
PubExceptRetriesAtOnce ==
    /\ pc = "pub_except"
    /\ mfs' = [mfs EXCEPT ![Tmp] = Absent]
    /\ pc' = IF final THEN "done" ELSE "check_stop"
    /\ now' = 0
    /\ content' = << >>
    /\ UNCHANGED <<logVars, events, followVars, countVars, clock, last_flush, STOP, mark>>
    /\ UNCHANGED <<final, dir_exists, dest_before>>

\* the publication without its handler: the exception ends the process
PubExceptMissing ==
    /\ pc = "pub_except"
    /\ pc' = "crashed"
    /\ UNCHANGED <<logVars, events, followVars, countVars, timeVars, STOP, mark>>
    /\ UNCHANGED pubVars

\* lines 207-210 and 231-232: the handler of an exception of the publication
\* prints the error; the periodic flush then sets last_flush all the same.
\* The temporary file stays behind under its own name, which no later
\* publication uses: it is not followed further.
PubExcept ==
    /\ pc = "pub_except"
    /\ mfs' = [mfs EXCEPT ![Tmp] = Absent]
    /\ AfterPublish
    /\ UNCHANGED <<logVars, events, followVars, countVars, clock, STOP, mark>>
    /\ UNCHANGED <<final, dir_exists, dest_before>>

(* -------------------------- the specification ------------------------- *)

Follower ==
    InitOpen \/ InitSleep \/ LoopTest \/ ReadLine \/ Stat \/ Reopen \/ SleepMissing \/ Sleep

Driver == Process \/ FlushCheck \/ CheckStop \/ FinalFlush

Publisher == Makedirs \/ MkTemp \/ Write \/ Flush \/ Fsync \/ Replace \/ PubExcept

Program == Follower \/ Driver \/ Publisher

Environment ==
    AppendLog \/ Truncate \/ Remove
        \/ Create \/ Chmod \/ Signal

Next == Program \/ Environment

Spec == Init /\ [][Next]_vars

\* the process is one thread that runs whenever it can: its next step is
\* eventually taken.  Nothing is assumed of the writer of the log, of the file
\* system or of the signals.
\* Process, FlushCheck and FinalFlush can always be taken where pc is at them,
\* and nothing else can: weak fairness of them is written without ENABLED.
Fairness ==
    /\ WF_vars(Follower \/ CheckStop \/ Publisher)
    /\ \/ []<>(pc \notin {"process", "flush_check", "final_flush"})
       \/ []<><<Process \/ FlushCheck \/ FinalFlush>>_vars

FairSpec == Spec /\ Fairness

(* ------------------- rendering, on dicts of any order ----------------- *)

\* the most buckets of a dict that is rendered
MaxBuckets == 3

\* the keys of the dicts rendered: two users of which one is a prefix of the
\* other, one user with two dbs, one db with two users
RenderKeys ==
    { <<<<"b", "o", "b">>, <<"b", "i", "l", "l", "i", "n", "g">>>>,
      <<<<"b", "o", "b">>, <<"c", "r", "m">>>>,
      <<<<"b", "o">>, <<"o", "r", "d", "e", "r", "s">>>>,
      <<<<"a", "l", "i", "c", "e">>, <<"o", "r", "d", "e", "r", "s">>>> }

\* the sequences that hold each element of the set S once
Orderings(S) ==
    {o \in [1..Cardinality(S) -> S] : \A i, j \in 1..Cardinality(S) : o[i] = o[j] => i = j}

\* the float that adding x to 0.0 c times gives
RECURSIVE Times(_, _)
Times(c, x) == IF c = 0 THEN FZero ELSE FAdd(Times(c - 1, x), x)

\* the dict that holds the keys ks in this order of insertion, the bucket of a
\* key holding n slow queries of dur_ms each, one more for a user bob
DictOf(ks, n, dur_ms) ==
    [i \in 1..Len(ks) |->
        LET c == IF Len(ks[i][1]) = 3 THEN n + 1 ELSE n
        IN  [key |-> ks[i], count |-> c, sum |-> Times(c, dur_ms)]]

\* the counts of the buckets of the dict pk, added up
RECURSIVE TotalCount(_)
TotalCount(pk) ==
    IF pk = << >> THEN 0 ELSE TotalCount(SubSeq(pk, 1, Len(pk) - 1)) + pk[Len(pk)].count

\* the sums of the buckets of the dict pk, added up from the first bucket on
RECURSIVE TotalSum(_)
TotalSum(pk) ==
    IF pk = << >> THEN FZero
    ELSE FAdd(TotalSum(SubSeq(pk, 1, Len(pk) - 1)), pk[Len(pk)].sum)

\* main with some dict: lines 151-156 with counters that lines 172-180 can
\* have produced
RenderInit ==
    /\ \E K \in SUBSET RenderKeys :
          /\ Cardinality(K) <= MaxBuckets
          /\ \E ks \in Orderings(K), n \in {1, 11} :
                per_key = DictOf(ks, n, ParseFloat(<<"6", "0", "0", ".", "5">>))
    /\ slow_count_total = TotalCount(per_key)
    /\ slow_ms_sum_total = TotalSum(per_key)
    /\ pc = "compose"
    /\ content = << >>
    /\ path_ino = 1
    /\ files = [i \in Inodes |-> IF i = 1 THEN OldLog ELSE << >>]
    /\ readable = TRUE
    /\ script = 1
    /\ appends = 0
    /\ events = 0
    /\ f = NoFile
    /\ last_ino = None
    /\ line = << >>
    /\ STOP = FALSE
    /\ clock = StartTime
    /\ now = 0
    /\ last_flush = 0
    /\ final = FALSE
    /\ dir_exists = TRUE
    /\ mfs = [n \in {Dest, Tmp} |-> IF n = Dest THEN OldPayload ELSE Absent]
    /\ yielded = << >>
    /\ mark = [at |-> 0, by |-> "start", clean |-> FALSE, size |-> 0]
    /\ dest_before = OldPayload

\* lines 185-203: the exposition of the counters is composed
Compose ==
    /\ pc = "compose"
    /\ content' = Render(slow_count_total, slow_ms_sum_total, per_key)
    /\ pc' = "composed"
    /\ UNCHANGED <<logVars, events, followVars, countVars, timeVars, STOP, mark>>
    /\ UNCHANGED <<final, dir_exists, mfs, dest_before>>

\* the same buckets in a dict made in another order of insertion, or in the
\* same one
Reinsert ==
    /\ pc = "composed"
    /\ \E o \in Orderings(1..Len(per_key)) :
          per_key' = [i \in 1..Len(per_key) |-> per_key[o[i]]]
    /\ pc' = "compose"
    /\ UNCHANGED <<logVars, events, followVars, slow_count_total, slow_ms_sum_total>>
    /\ UNCHANGED <<pubVars, timeVars, STOP, mark>>

RenderNext == Compose \/ Reinsert

RenderSpec == RenderInit /\ [][RenderNext]_vars

(* ------------------------- what the claims use ------------------------ *)

\* t is the text of a number: digits, or digits, a point and digits
IsNumberText(t) ==
    \E p \in 1..Len(t) :
        /\ \A k \in 1..p : t[k] \in Digits
        /\ \/ p = Len(t)
           \/ /\ p + 2 <= Len(t)
              /\ t[p + 1] = "."
              /\ \A k \in (p + 2)..Len(t) : t[k] \in Digits

\* the values of the duration markers of s: "duration:" in any case, blanks, a
\* number s[b..d-1], blanks or none, "ms" in any case
MarkerValues(s) ==
    UNION { UNION { { ParseFloat(SubSeq(s, b, d - 1)) :
                        d \in { d \in (b + 1)..(Len(s) + 1) :
                                  /\ IsNumberText(SubSeq(s, b, d - 1))
                                  /\ \E e \in d..Len(s) :
                                        /\ \A k \in d..(e - 1) : s[k] \in WS
                                        /\ MatchLit(s, e, LitMs) } } :
                    b \in { b \in (i + 10)..Len(s) :
                              \A k \in (i + 9)..(b - 1) : s[k] \in WS } } :
            i \in { i \in 1..Len(s) : MatchLit(s, i, LitDuration) } }

\* the attribute markers of s: a blank, a user without "@" or blank, "@", a db
\* without blank, a blank
AttrMarkers(s) ==
    UNION { UNION { { <<SubSeq(s, i + 1, u - 1), SubSeq(s, u + 1, d - 1)>> :
                        d \in { d \in (u + 2)..Len(s) :
                                  /\ s[d] \in WS
                                  /\ \A k \in (u + 1)..(d - 1) : s[k] \notin WS } } :
                    u \in { u \in (i + 2)..Len(s) :
                              /\ s[u] = "@"
                              /\ \A k \in (i + 1)..(u - 1) : s[k] \notin WS \cup {"@"} } } :
            i \in { i \in 1..Len(s) : s[i] \in WS } }

\* the last line the follower yielded
LastYielded == yielded[Len(yielded)]

\* the step is the processing of the yielded line
Processing == pc = "process" /\ pc' = "flush_check"

\* the complete lines of a text that is empty or ends with a line terminator
RECURSIVE SplitLines(_)
SplitLines(s) ==
    IF FirstNL(s) = 0 THEN << >>
    ELSE <<SubSeq(s, 1, FirstNL(s))>> \o SplitLines(SubSeq(s, FirstNL(s) + 1, Len(s)))

\* s is a proper, non-empty prefix of t
IsPartOf(s, t) == 0 < Len(s) /\ Len(s) < Len(t) /\ s = SubSeq(t, 1, Len(s))

\* the exposition of the counters as they are
Snapshot == Render(slow_count_total, slow_ms_sum_total, per_key)

\* the follower has read all of the file the path names and found nothing
\* to reopen
CaughtUp ==
    /\ pc = "sleep"
    /\ path_ino /= 0
    /\ f.st = "open" /\ f.ino = path_ino
    /\ f.buf = << >> /\ f.fdpos = Len(files[path_ino])

\* the count and the sum of the bucket of key k in the dict pk, zeros if it has
\* none
BucketOf(pk, k) ==
    IF k \in Keys(pk) THEN [count |-> StatOf(pk, k).count, sum |-> StatOf(pk, k).sum]
    ELSE [count |-> 0, sum |-> FZero]

(* ------------------------------ the claims ---------------------------- *)

\* C1: processing a yielded line whose duration marker has the value X adds 1
\* to the global count and X to the global sum when X >= threshold, and leaves
\* the global count, the global sum and every keyed bucket as they are when
\* X < threshold.
C1_ThresholdDecidesCounting ==
    [][ Processing =>
          \A X \in MarkerValues(line) :
              IF ~FLess(X, FloatOfInt(ThresholdMs))
              THEN /\ slow_count_total' = slow_count_total + 1
                   /\ slow_ms_sum_total' = FAdd(slow_ms_sum_total, X)
              ELSE UNCHANGED <<slow_count_total, slow_ms_sum_total, per_key>> ]_vars

\* C1 witness: the fast line of 100 ms has been processed after the slow lines
\* of 600 ms and 1200 ms were counted
C1_Witness ==
    /\ pc = "flush_check"
    /\ Len(yielded) >= 3
    /\ LastYielded = LineBob100
    /\ slow_count_total = 2
    /\ slow_ms_sum_total = FloatOfInt(1800)

\* C2: processing a yielded line without duration marker leaves the global
\* count, the global sum, the set of keyed buckets and every bucket unchanged,
\* also when the line has a user@db marker.
C2_NoMarkerNoChange ==
    [][ (Processing /\ MarkerValues(line) = {}) =>
          UNCHANGED <<slow_count_total, slow_ms_sum_total, per_key>> ]_vars

\* C2 witness: a line with the marker carol@crm and no duration marker has been
\* processed
C2_Witness ==
    /\ pc = "flush_check"
    /\ yielded /= << >>
    /\ LastYielded = LineNoDur
    /\ AttrMarkers(LastYielded) = {<< <<"c", "a", "r", "o", "l">>, <<"c", "r", "m">> >>}
    /\ MarkerValues(LastYielded) = {}

\* C3: a step that records a slow query adds to exactly one keyed bucket what
\* it adds to the global one (1 to the count, the same X to the sum), a missing
\* bucket counting as zeros: the bucket of the line's user@db marker, or
\* ("unknown", "unknown") when the line has none; every other bucket is as it
\* was and no other bucket appears.
C3_OneKeyedBucket ==
    [][ (Processing /\ slow_count_total' = slow_count_total + 1) =>
          LET key == IF AttrMarkers(line) = {} THEN <<Unknown, Unknown>>
                     ELSE CHOOSE k \in AttrMarkers(line) : TRUE
          IN  /\ Cardinality(AttrMarkers(line)) <= 1
              /\ Keys(per_key') = Keys(per_key) \cup {key}
              /\ BucketOf(per_key', key).count = BucketOf(per_key, key).count + 1
              /\ \E X \in MarkerValues(line) :
                    /\ slow_ms_sum_total' = FAdd(slow_ms_sum_total, X)
                    /\ BucketOf(per_key', key).sum = FAdd(BucketOf(per_key, key).sum, X)
              /\ \A k \in Keys(per_key) \ {key} :
                    BucketOf(per_key', k) = BucketOf(per_key, k) ]_vars

\* C3 witness: a slow line without user@db marker has been recorded in the
\* bucket ("unknown", "unknown") beside the bucket of another line's marker
C3_Witness ==
    /\ pc = "flush_check"
    /\ <<Unknown, Unknown>> \in Keys(per_key)
    /\ Cardinality(Keys(per_key)) = 2
    /\ slow_count_total = 2
    /\ BucketOf(per_key, <<Unknown, Unknown>>) = [count |-> 1, sum |-> FloatOfInt(500)]

\* C4: whatever the step of a publication and whenever the destination is
\* read, its content is the complete exposition published before or the
\* complete new one: the content of the destination changes in the replace
\* step only, and then to the whole exposition of the counters.
C4_DestinationAlwaysComplete ==
    [][ mfs'[Dest] /= mfs[Dest] =>
          /\ pc = "replace"
          /\ mfs'[Dest] = content
          /\ content = Snapshot ]_vars

\* C4 witness: a publication has replaced the exposition of the previous run by
\* the one of the counters, which hold a slow query
C4_Witness ==
    /\ pc = "check_stop"
    /\ slow_count_total > 0
    /\ mfs[Dest] = Snapshot
    /\ mfs[Tmp] = Absent

\* C5: when a step of a periodic publication has failed, the destination holds
\* what it held when the publication began, before and after the handler, the
\* counters are the ones the publication started with and stay so, and the loop
\* goes on to its next turn.
C5_FailedPublishHarmless ==
    [][ (pc = "pub_except" /\ ~final) =>
          /\ mfs[Dest] = dest_before
          /\ mfs'[Dest] = dest_before
          /\ content = Snapshot
          /\ UNCHANGED <<slow_count_total, slow_ms_sum_total, per_key>>
          /\ pc' = "check_stop" ]_vars

\* C5 witness: the flush of a periodic publication has failed with a part of
\* the exposition in the temporary file, the destination holding the
\* exposition of the previous run and the counters a slow query
C5_Witness ==
    /\ pc = "pub_except" /\ ~final
    /\ slow_count_total > 0
    /\ IsPartOf(mfs[Tmp], content)
    /\ mfs[Dest] = OldPayload

\* C6: every line the follower yields ends with the line terminator.
C6_OnlyTerminatedLines ==
    \A i \in 1..Len(yielded) : yielded[i][Len(yielded[i])] = "\n"

\* C7: the step of the follower that reopens the path after a rotation or a
\* truncation was seen, when the open succeeds, leaves the follower at offset
\* 0 of the file it has opened.
C7_ReopenFromStart ==
    [][ (pc = "reopen" /\ pc' /= "reopen" /\ f'.st = "open") => Tell(f') = 0 ]_vars

\* C8: after a truncation of a file the follower had read to its end, once the
\* follower has caught up with a file made of complete lines, the lines yielded
\* since the truncation are the lines of the file, each once and in order.
C8_TruncateThenAppend ==
    ( /\ mark.by = "truncate" /\ mark.clean
      /\ CaughtUp
      /\ (files[path_ino] = << >> \/ files[path_ino][Len(files[path_ino])] = "\n") )
        => SubSeq(yielded, mark.at + 1, Len(yielded)) = SplitLines(files[path_ino])

\* C9: the process does not die of a failure of the log, and while the stop
\* flag is not set the follower holds an open file or is in the loop that
\* retries the open.
C9_LogFailureNotFatal ==
    /\ pc /= "crashed"
    /\ (~STOP /\ pc \notin {"init_open", "init_sleep"}) => f.st = "open"

\* the run has been followed to the end of the time explored: the process is
\* at a sleep that would end later
TimeUp == pc \in {"init_sleep", "sleep_missing", "sleep"} /\ ~WithinTicks(clock)

\* C10: whenever the flush interval has passed since the last flush and the
\* stop flag is not set, a publication eventually begins, or the stop flag is
\* set; a run is judged as far as it is followed, so that only a run in which
\* the process ends without the publication refutes this.
C10_PublishEventually ==
    (FlushDue(clock, last_flush) /\ ~STOP) ~> (pc = "makedirs" \/ STOP \/ TimeUp)

\* C11: once the stop flag is set the process eventually exits, whatever the
\* follower was doing and whether or not the log gets another line: main
\* returns, or the process has ended by an exception nothing catches.
C11_StopLeadsToExit == STOP ~> (pc = "done" \/ pc = "crashed")

\* C11 witness: the process has exited on the stop flag while the path of the
\* log did not exist and no line was ever yielded
C11_Witness ==
    /\ pc = "done" /\ STOP
    /\ path_ino = 0
    /\ yielded = << >>

\* C12: once the stop flag is set the process ends only through a final
\* publication; the final publication is begun once, whatever the time since
\* the last flush, with the exposition of the counters as they then are; no
\* observation is recorded after it has begun; and when its replace succeeds
\* the destination holds the exposition of the final counters.
C12_OneFinalPublish ==
    [][ /\ (STOP /\ pc' \in {"done", "crashed"} /\ pc \notin {"done", "crashed"})
              => (final /\ pc \in {"replace", "pub_except"})
        /\ pc = "final_flush" =>
              (~final /\ final' /\ content' = Snapshot /\ pc' = "mktemp")
        /\ final => (final' /\ UNCHANGED <<slow_count_total, slow_ms_sum_total, per_key>>)
        /\ (final /\ pc = "replace" /\ pc' = "done") => mfs'[Dest] = Snapshot ]_vars

\* C13: whenever write_metrics_atomic is about to create its temporary file,
\* in a periodic or in the final publication, the directory of the destination
\* exists.
C13_DirectoryEnsured == pc = "mktemp" => dir_exists

\* the label text {db="billing",user="bob"}
LabelsDbUser ==
    <<"{", "d", "b", "=", "\"", "b", "i", "l", "l", "i", "n", "g", "\"", ",", "u", "s", "e", "r", "=", "\"", "b", "o", "b", "\"", "}">>

\* the label text {user="bob",db="billing"}
LabelsUserDb ==
    <<"{", "u", "s", "e", "r", "=", "\"", "b", "o", "b", "\"", ",", "d", "b", "=", "\"", "b", "i", "l", "l", "i", "n", "g", "\"", "}">>

\* the exposition text has the sample line of the metric name with the label
\* text lbl and the value text value
HasSample(text, name, lbl, value) ==
    \E i \in 1..Len(text) : text[i] = Sample(name, lbl, value)

\* the follower has yielded the two slow lines and the fast line of
\* bob@billing and nothing else, and a publication made after the three were
\* processed replaces the destination
PublishesBobLines ==
    /\ yielded = <<LineBob600, LineBob1200, LineBob100>>
    /\ pc = "replace" /\ pc' /= "pub_except"

\* the exposition text has the global samples of count 2 and sum 1800.000 and
\* the samples of bob@billing with the label text lbl
BobSamples(text, lbl) ==
    /\ HasSample(text, "pg_slow_queries_total", << >>, <<"2">>)
    /\ HasSample(text, "pg_slow_queries_ms_sum", << >>, <<"1", "8", "0", "0", ".", "0", "0", "0">>)
    /\ HasSample(text, "pg_slow_queries_total", lbl, <<"2">>)
    /\ HasSample(text, "pg_slow_queries_ms_sum", lbl, <<"1", "8", "0", "0", ".", "0", "0", "0">>)

\* C14 (as it holds): with threshold 500 and no static labels, after the lines
\* of 600 ms, 1200 ms and 100 ms of bob@billing and a publication, the
\* destination has the global samples 2 and 1800.000 and the samples
\* pg_slow_queries_total{db="billing",user="bob"} 2 and
\* pg_slow_queries_ms_sum{db="billing",user="bob"} 1800.000, the label names
\* in ascending order.
C14_EndToEndDbUser ==
    [][ PublishesBobLines => BobSamples(mfs'[Dest], LabelsDbUser) ]_vars

\* C14 witness: the publication after the three lines has succeeded and the
\* destination holds the exposition of count 2
C14_Witness ==
    /\ yielded = <<LineBob600, LineBob1200, LineBob100>>
    /\ pc = "done"
    /\ slow_count_total = 2 /\ slow_ms_sum_total = FloatOfInt(1800)
    /\ mfs[Dest] = Snapshot
    /\ Len(mfs[Dest]) = 8

\* C14 (as stated): the same with the samples
\* pg_slow_queries_total{user="bob",db="billing"} 2 and
\* pg_slow_queries_ms_sum{user="bob",db="billing"} 1800.000.
C14_EndToEndUserDb ==
    [][ PublishesBobLines => BobSamples(mfs'[Dest], LabelsUserDb) ]_vars

\* a comes before b in the order of strings: at the first place where they
\* differ a has ended or has the smaller character
StrBefore(a, b) ==
    \E i \in 1..Len(b) :
        /\ \A k \in 1..(i - 1) : k <= Len(a) /\ a[k] = b[k]
        /\ \/ i = Len(a) + 1
           \/ i <= Len(a) /\ CharCode(a[i]) < CharCode(b[i])

\* the key k1 comes before k2: by user, then by db
KeyBefore(k1, k2) ==
    \/ StrBefore(k1[1], k2[1])
    \/ k1[1] = k2[1] /\ StrBefore(k1[2], k2[2])

\* the exposition text is the header and the global samples, followed by the
\* samples of the buckets of pk in ascending order of (user, db)
AscendingExposition(text, pk) ==
    \E ks \in Orderings(Keys(pk)) :
        /\ \A i \in 1..(Len(ks) - 1) : KeyBefore(ks[i], ks[i + 1])
        /\ Len(text) = 6 + 2 * Len(ks)
        /\ \A i \in 1..Len(ks) :
              /\ text[5 + 2 * i] =
                    Sample("pg_slow_queries_total",
                           format_labels(extra_labels, ks[i][2], ks[i][1]),
                           IntToText(StatOf(pk, ks[i]).count))
              /\ text[6 + 2 * i] =
                    Sample("pg_slow_queries_ms_sum",
                           format_labels(extra_labels, ks[i][2], ks[i][1]),
                           Fixed3(StatOf(pk, ks[i]).sum))

\* C15: the exposition composed of a dict is the one composed before of the
\* same buckets, in the same or in another order of insertion, and its keyed
\* samples stand in ascending order of (user, db).
C15_RenderOfContentsOnly ==
    [][ pc = "compose" =>
          /\ content /= << >> => content' = content
          /\ AscendingExposition(content', per_key) ]_vars

\* C15 witness: a dict of three buckets inserted in descending order has been
\* rendered a second time
C15_Witness ==
    /\ pc = "composed"
    /\ Len(per_key) = 3
    /\ \A i \in 1..2 : KeyBefore(per_key[i + 1].key, per_key[i].key)
    /\ AscendingExposition(content, per_key)

\* C16: in every step of the process and of its environment, the global count
\* and sum and the count and sum of every bucket are at least 0 and do not
\* decrease, and every bucket of per_key is still in per_key after the step.
C16_AggregateOnlyGrows ==
    [][ /\ 0 <= slow_count_total /\ slow_count_total <= slow_count_total'
        /\ ~FLess(slow_ms_sum_total, FZero)
        /\ ~FLess(slow_ms_sum_total', slow_ms_sum_total)
        /\ \A k \in Keys(per_key) :
              /\ k \in Keys(per_key')
              /\ 0 <= BucketOf(per_key, k).count
              /\ BucketOf(per_key, k).count <= BucketOf(per_key', k).count
              /\ ~FLess(BucketOf(per_key, k).sum, FZero)
              /\ ~FLess(BucketOf(per_key', k).sum, BucketOf(per_key, k).sum) ]_vars

\* C16 witness: a second bucket has been made after the log was truncated,
\* the first one still holding its slow queries
C16_Witness ==
    /\ mark.by = "truncate"
    /\ Len(per_key) = 2
    /\ per_key[1].count >= 2
    /\ Len(yielded) > mark.at

\* the path names a file made after the old one disappeared, which can be read
Reappeared == mark.by = "create" /\ path_ino /= 0 /\ readable

\* the follower reads from the file the path names
ReadsPath == f.st = "open" /\ f.ino = path_ino

\* C17: when the path, after it disappeared, names a new file for good, the
\* follower eventually reads from that file, unless the stop flag is set.
C17_ReadsReappearedFile == <>[]Reappeared => <>(STOP \/ (Reappeared /\ ReadsPath))

\* C18: the step that ends a periodic publication, by a replace that succeeds
\* or by the handler of a failure, sets last_flush to the time read when the
\* publication began; and a periodic publication begins, reading the clock,
\* only when the clock is at least the flush interval beyond last_flush.
C18_LastFlushAfterAttempt ==
    [][ /\ (~final /\ pc \in {"replace", "pub_except"} /\ pc' = "check_stop") =>
              last_flush' = now
        /\ (pc = "flush_check" /\ pc' = "makedirs") =>
              (now' = clock /\ clock - last_flush >= FlushInterval) ]_vars

\* C18 witness: the first periodic publication failed (the destination still
\* holds the exposition of the previous run, last_flush is the time of the
\* attempt) and a second line has gone by without a publication
C18_Witness ==
    /\ pc = "check_stop"
    /\ Len(yielded) >= 2
    /\ slow_count_total >= 1
    /\ last_flush = clock
    /\ mfs[Dest] = OldPayload

\* C19: while the log is the file of the initial open, neither truncated nor
\* replaced, once the follower has caught up with a file that ends with a
\* line terminator, the lines yielded are the lines of what was appended after
\* the initial open, each once and in order, and nothing of what the file held
\* at the open.
C19_OnlyAppendedLines ==
    ( /\ mark.by = "open"
      /\ CaughtUp
      /\ files[path_ino][Len(files[path_ino])] = "\n" )
        => yielded = SplitLines(SubSeq(files[path_ino], mark.size + 1, Len(files[path_ino])))

\* the counts of the buckets of per_key of the keys K, added up
RECURSIVE KeyedCount(_)
KeyedCount(K) ==
    IF K = {} THEN 0
    ELSE LET k == CHOOSE x \in K : TRUE
         IN  BucketOf(per_key, k).count + KeyedCount(K \ {k})

\* the sums of the buckets of per_key added up as floats, the keys taken in
\* the order ks
RECURSIVE KeyedSum(_)
KeyedSum(ks) ==
    IF ks = << >> THEN FZero
    ELSE FAdd(KeyedSum(SubSeq(ks, 1, Len(ks) - 1)), BucketOf(per_key, ks[Len(ks)]).sum)

\* the sums of the buckets of per_key of the keys K added up without
\* rounding: the number m * 2^e, m of any size
RECURSIVE KeyedExact(_)
KeyedExact(K) ==
    IF K = {} THEN FZero
    ELSE LET k == CHOOSE x \in K : TRUE
             a == BucketOf(per_key, k).sum
             b == KeyedExact(K \ {k})
             e == IF a.e < b.e THEN a.e ELSE b.e
         IN  [m |-> BigAdd(BigShl(a.m, a.e - e), BigShl(b.m, b.e - e)), e |-> e]

\* a and b are the same number
SameNumber(a, b) ==
    LET e == IF a.e < b.e THEN a.e ELSE b.e
    IN  BigShl(a.m, a.e - e) = BigShl(b.m, b.e - e)

\* C20: in every state, and so between any two processing steps, the global
\* count is the sum of the counts of the keyed buckets and the global sum is
\* the sum of their sums, whether these are added up without rounding or as
\* floats in some order of the buckets.
C20_GlobalIsTotalOfKeyed ==
    /\ slow_count_total = KeyedCount(Keys(per_key))
    /\ \/ SameNumber(slow_ms_sum_total, KeyedExact(Keys(per_key)))
       \/ \E ks \in Orderings(Keys(per_key)) : slow_ms_sum_total = KeyedSum(ks)

====
